---------------------------- MODULE Spec2Model ----------------------------
(***************************************************************************)
(* A model of lssh's connection-and-execution core:                        *)
(*   - GetProxyList        (ssh/connect.go): the backward proxy walk       *)
(*   - Connect.CreateSession / CreateClient / CheckClientAlive             *)
(*   - Connect.ConTerm     : raw mode, pty, shell, wait, deferred restore  *)
(*   - Connect.RunCmdWithOutput : the polling drain of the output buffer   *)
(*   - Run.cmd / Run.cmdRun : the executor's goroutines and channels       *)
(* Each component has its own variables, its own initial condition and its *)
(* own specification; the variables of the other components rest at an     *)
(* "off" value.                                                            *)
(***************************************************************************)
EXTENDS Integers, Sequences, FiniteSets, TLC

(***************************************************************************)
(* Bounds of the model.                                                    *)
(***************************************************************************)
\* server / proxy names are 1..MaxNames
MaxNames == 3

\* the empty string "" used as "no proxy reference" (preProxy == "")
NoName == 0

Names == 1..MaxNames

\* the walk of a cyclic configuration is cut after this many hops
MaxWalk == MaxNames + 2

(***************************************************************************)
(* Sequence helpers.                                                       *)
(***************************************************************************)
Reverse(s) == [i \in 1..Len(s) |-> s[Len(s) + 1 - i]]

Range(s) == {s[i] : i \in 1..Len(s)}

(***************************************************************************)
(*                              GetProxyList                               *)
(***************************************************************************)
VARIABLES
    config,        \* conf.Config: [Server: name -> ServerConfig, Proxy: set of names]
    server,        \* the argument `server`
    targetServer,  \* local targetServer
    targetType,    \* local targetType
    proxyList,     \* result proxyList
    proxyType,     \* result proxyType (a map: name -> type)
    gpErr,         \* result err ("" is nil)
    gpPc,          \* "off" | "loop" | "reverse" | "done"
    collected      \* history: the hops in the order the walk appended them

proxyVars == <<config, server, targetServer, targetType, proxyList, proxyType,
               gpErr, gpPc, collected>>

\* the proxy kinds that GetProxyList treats as tunnels
TunnelTypes == {"http", "https", "socks5"}

\* the values of ServerConfig.ProxyType the model draws: unset (an SSH hop)
\* and one tunnel kind
ProxyTypeChoices == {"", "socks5"}

\* conf.ServerConfig, reduced to the two fields GetProxyList reads
ServerConfigs == [Proxy : {NoName} \cup Names, ProxyType : ProxyTypeChoices]

\* the zero value a Go map lookup yields for an absent key
ZeroServerConfig == [Proxy |-> NoName, ProxyType |-> ""]

Configs ==
    [Server : UNION {[D -> ServerConfigs] : D \in SUBSET Names},
     Proxy  : SUBSET Names]

\* preProxyConf, isOk = config.Server[name]
ServerLookup(c, name) ==
    IF name \in DOMAIN c.Server
    THEN [conf |-> c.Server[name], isOk |-> TRUE]
    ELSE [conf |-> ZeroServerConfig, isOk |-> FALSE]

\* _, isOk = config.Proxy[name]
ProxyLookup(c, name) == name \in c.Proxy

\* the first switch of the loop body: isOk, preProxy, preProxyType
PreProxy(c, tServer, tType) ==
    IF tType \in TunnelTypes
    THEN [isOk |-> ProxyLookup(c, tServer), preProxy |-> NoName, preProxyType |-> ""]
    ELSE LET l == ServerLookup(c, tServer)
         IN  [isOk |-> l.isOk, preProxy |-> l.conf.Proxy,
              preProxyType |-> l.conf.ProxyType]

\* a second switch that gives every hop the kind ssh
HopTypeAlwaysSsh(preProxyType) == "ssh"

\* the second switch: proxy.Type
HopType(preProxyType) ==
    IF preProxyType \in TunnelTypes THEN preProxyType ELSE "ssh"

\* map assignment m[k] = v
MapSet(m, k, v) == [x \in DOMAIN m \cup {k} |-> IF x = k THEN v ELSE m[x]]

EmptyMap == [x \in {} |-> ""]

\* the reversal loop: for i, j := 0, len-1; i < j; i, j = i+1, j-1 { swap }
RECURSIVE SwapLoop(_, _, _)
SwapLoop(l, i, j) ==
    IF i < j
    THEN SwapLoop([l EXCEPT ![i] = l[j], ![j] = l[i]], i + 1, j - 1)
    ELSE l

\* a reversal whose upper index starts one short
ReverseProxyListShort(l) == SwapLoop(l, 1, Len(l) - 1)

ReverseProxyList(l) == SwapLoop(l, 1, Len(l))

ProxyInit ==
    /\ config \in Configs
    /\ server \in Names
    /\ targetServer = server
    /\ targetType = ""
    /\ proxyList = <<>>
    /\ proxyType = EmptyMap
    /\ gpErr = ""
    /\ gpPc = "loop"
    /\ collected = <<>>

ProxyOff ==
    /\ config = [Server |-> EmptyMap, Proxy |-> {}]
    /\ server = NoName
    /\ targetServer = NoName
    /\ targetType = ""
    /\ proxyList = <<>>
    /\ proxyType = EmptyMap
    /\ gpErr = ""
    /\ gpPc = "off"
    /\ collected = <<>>

\* an iteration that appends the hop but does not move on to it
\* (targetServer and targetType keep their values)
GetProxyListIterNoAdvance ==
    /\ gpPc = "loop"
    /\ Len(proxyList) < MaxWalk
    /\ LET p == PreProxy(config, targetServer, targetType)
       IN  IF p.preProxy = NoName
           THEN /\ gpPc' = "reverse"
                /\ UNCHANGED <<targetServer, targetType, proxyList, proxyType,
                               gpErr, collected>>
           ELSE IF ~p.isOk
           THEN /\ gpPc' = "done"
                /\ gpErr' = "Not Found proxy"
                /\ proxyList' = <<>>
                /\ proxyType' = EmptyMap
                /\ UNCHANGED <<targetServer, targetType, collected>>
           ELSE /\ proxyList' = Append(proxyList, p.preProxy)
                /\ proxyType' = MapSet(proxyType, p.preProxy, HopType(p.preProxyType))
                /\ collected' = Append(collected, p.preProxy)
                /\ UNCHANGED <<targetServer, targetType, gpErr, gpPc>>
    /\ UNCHANGED <<config, server>>

\* one iteration of the for loop of GetProxyList
GetProxyListIter ==
    /\ gpPc = "loop"
    /\ Len(proxyList) < MaxWalk
    /\ LET p == PreProxy(config, targetServer, targetType)
       IN  IF p.preProxy = NoName
           THEN \* break
                /\ gpPc' = "reverse"
                /\ UNCHANGED <<targetServer, targetType, proxyList, proxyType,
                               gpErr, collected>>
           ELSE IF ~p.isOk
           THEN \* return nil, nil, err
                /\ gpPc' = "done"
                /\ gpErr' = "Not Found proxy"
                /\ proxyList' = <<>>
                /\ proxyType' = EmptyMap
                /\ UNCHANGED <<targetServer, targetType, collected>>
           ELSE /\ proxyList' = Append(proxyList, p.preProxy)
                /\ proxyType' = MapSet(proxyType, p.preProxy, HopType(p.preProxyType))
                /\ collected' = Append(collected, p.preProxy)
                /\ targetServer' = p.preProxy
                /\ targetType' = HopType(p.preProxyType)
                /\ UNCHANGED <<gpErr, gpPc>>
    /\ UNCHANGED <<config, server>>

\* the reversal and the return
GetProxyListReturn ==
    /\ gpPc = "reverse"
    /\ proxyList' = ReverseProxyList(proxyList)
    /\ gpPc' = "done"
    /\ UNCHANGED <<config, server, targetServer, targetType, proxyType, gpErr,
                   collected>>

(***************************************************************************)
(*        Connect.CreateSession, CheckClientAlive and CreateClient         *)
(***************************************************************************)
\* CreateSession is called at most MaxCalls times on the one Connect
MaxCalls == 3

\* at most MaxClients transport clients are ever dialed
MaxClients == 4

\* c.Client == nil
NilClient == 0

VARIABLES
    Client,        \* Connect.Client: NilClient or the id of an *ssh.Client
    clientOpen,    \* the clients dialed and never closed
    clientAlive,   \* the clients whose transport still answers
    nCreated,      \* the number of clients dialed so far (ids are 1..nCreated)
    calls,         \* the number of CreateSession calls started
    csPc,          \* "off" | "idle" | "checkNil" | "probe" | "rebuild"
                   \* | "newSession" | "returned"
    csErr,         \* the err CreateSession returns ("" is nil)
    csSession,     \* the session returned: 0, or the client it belongs to
    probed,        \* this call: the client the liveness probe was sent to
    probeRes,      \* this call: "none" | "ok" | "fail"
    rebuilds,      \* this call: CreateClient invocations after a failed probe
    rebuildRes,    \* this call: "none" | "ok" | "fail" (the last rebuild)
    rebuilt,       \* this call: the client a successful rebuild stored
    sessionAsked,  \* this call: Client.NewSession() was invoked
    sessionFrom    \* this call: the value of c.Client it was invoked on

sessVars == <<Client, clientOpen, clientAlive, nCreated, calls, csPc, csErr,
              csSession, probed, probeRes, rebuilds, rebuildRes, rebuilt,
              sessionAsked, sessionFrom>>

\* the err of Client.SendRequest("keepalive@lssh.com", true, nil): a live
\* transport answers nil or "request failed", a dead one fails otherwise
SendRequestErrs(c) ==
    IF c \in clientAlive THEN {"", "request failed"} ELSE {"EOF"}

\* CheckClientAlive: nil and "request failed" both count as alive
CheckClientAlive(err) ==
    IF err = "" \/ err = "request failed" THEN "" ELSE err

SessInit ==
    /\ Client = NilClient
    /\ clientOpen = {}
    /\ clientAlive = {}
    /\ nCreated = 0
    /\ calls = 0
    /\ csPc = "idle"
    /\ csErr = ""
    /\ csSession = 0
    /\ probed = NilClient
    /\ probeRes = "none"
    /\ rebuilds = 0
    /\ rebuildRes = "none"
    /\ rebuilt = NilClient
    /\ sessionAsked = FALSE
    /\ sessionFrom = NilClient

SessOff ==
    /\ Client = NilClient
    /\ clientOpen = {}
    /\ clientAlive = {}
    /\ nCreated = 0
    /\ calls = 0
    /\ csPc = "off"
    /\ csErr = ""
    /\ csSession = 0
    /\ probed = NilClient
    /\ probeRes = "none"
    /\ rebuilds = 0
    /\ rebuildRes = "none"
    /\ rebuilt = NilClient
    /\ sessionAsked = FALSE
    /\ sessionFrom = NilClient

callVars == <<probed, probeRes, rebuilds, rebuildRes, rebuilt, sessionAsked,
              sessionFrom>>

\* CreateClient succeeding: a new client is dialed and stored in c.Client;
\* the client stored before is neither closed nor kept anywhere
CreateClientOk ==
    /\ nCreated < MaxClients
    /\ nCreated' = nCreated + 1
    /\ Client' = nCreated + 1
    /\ clientOpen' = clientOpen \cup {nCreated + 1}
    /\ clientAlive' = clientAlive \cup {nCreated + 1}

\* CreateClient failing (agent, auth, dial or proxy error): c.Client is kept
CreateClientFail == UNCHANGED <<Client, clientOpen, clientAlive, nCreated>>

\* a caller invokes CreateSession
CreateSessionCall ==
    /\ csPc \in {"idle", "returned"}
    /\ calls < MaxCalls
    /\ calls' = calls + 1
    /\ csPc' = "checkNil"
    /\ csErr' = ""
    /\ csSession' = 0
    /\ probed' = NilClient
    /\ probeRes' = "none"
    /\ rebuilds' = 0
    /\ rebuildRes' = "none"
    /\ rebuilt' = NilClient
    /\ sessionAsked' = FALSE
    /\ sessionFrom' = NilClient
    /\ UNCHANGED <<Client, clientOpen, clientAlive, nCreated>>

\* if c.Client == nil { err = c.CreateClient(); if err != nil { return } }
CreateSessionNewConnect ==
    /\ csPc = "checkNil"
    /\ IF Client = NilClient
       THEN \/ /\ CreateClientOk
               /\ csPc' = "probe"
               /\ UNCHANGED csErr
            \/ /\ CreateClientFail
               /\ csPc' = "returned"
               /\ csErr' = "dial error"
       ELSE /\ csPc' = "probe"
            /\ UNCHANGED <<Client, clientOpen, clientAlive, nCreated, csErr>>
    /\ UNCHANGED <<calls, csSession, callVars>>

\* clientErr := c.CheckClientAlive()
CreateSessionProbe ==
    /\ csPc = "probe"
    /\ \E e \in SendRequestErrs(Client) :
         LET clientErr == CheckClientAlive(e)
         IN  /\ probed' = Client
             /\ probeRes' = IF clientErr = "" THEN "ok" ELSE "fail"
             /\ csPc' = IF clientErr = "" THEN "newSession" ELSE "rebuild"
    /\ UNCHANGED <<Client, clientOpen, clientAlive, nCreated, calls, csErr,
                   csSession, rebuilds, rebuildRes, rebuilt, sessionAsked,
                   sessionFrom>>

\* a rebuild whose failure is retried instead of returned
CreateSessionRebuildRetry ==
    /\ csPc = "rebuild"
    /\ rebuilds' = rebuilds + 1
    /\ \/ /\ CreateClientOk
          /\ rebuildRes' = "ok"
          /\ rebuilt' = nCreated + 1
          /\ csPc' = "newSession"
       \/ /\ CreateClientFail
          /\ rebuilds < MaxClients
          /\ rebuildRes' = "fail"
          /\ csPc' = "rebuild"
          /\ UNCHANGED rebuilt
    /\ UNCHANGED <<calls, csErr, csSession, probed, probeRes, sessionAsked,
                   sessionFrom>>

\* a rebuild whose failure falls through to NewSession (the return is missing)
CreateSessionRebuildNoReturn ==
    /\ csPc = "rebuild"
    /\ rebuilds' = rebuilds + 1
    /\ \/ /\ CreateClientOk
          /\ rebuildRes' = "ok"
          /\ rebuilt' = nCreated + 1
          /\ csPc' = "newSession"
          /\ UNCHANGED csErr
       \/ /\ CreateClientFail
          /\ rebuildRes' = "fail"
          /\ csPc' = "newSession"
          /\ csErr' = "dial error"
          /\ UNCHANGED rebuilt
    /\ UNCHANGED <<calls, csSession, probed, probeRes, sessionAsked,
                   sessionFrom>>

\* if clientErr != nil { err = c.CreateClient(); if err != nil { return } }
CreateSessionRebuild ==
    /\ csPc = "rebuild"
    /\ rebuilds' = rebuilds + 1
    /\ \/ /\ CreateClientOk
          /\ rebuildRes' = "ok"
          /\ rebuilt' = nCreated + 1
          /\ csPc' = "newSession"
          /\ UNCHANGED csErr
       \/ /\ CreateClientFail
          /\ rebuildRes' = "fail"
          /\ csPc' = "returned"
          /\ csErr' = "dial error"
          /\ UNCHANGED rebuilt
    /\ UNCHANGED <<calls, csSession, probed, probeRes, sessionAsked,
                   sessionFrom>>

\* session, err = c.Client.NewSession(); return
CreateSessionNewSession ==
    /\ csPc = "newSession"
    /\ sessionAsked' = TRUE
    /\ sessionFrom' = Client
    /\ \/ /\ Client \in clientAlive
          /\ csSession' = Client
          /\ csErr' = ""
       \/ /\ csSession' = 0
          /\ csErr' = "session error"
    /\ csPc' = "returned"
    /\ UNCHANGED <<Client, clientOpen, clientAlive, nCreated, calls, probed,
                   probeRes, rebuilds, rebuildRes, rebuilt>>

\* the environment: the transport of a client dies
TransportDies ==
    /\ csPc # "off"
    /\ \E c \in clientAlive : clientAlive' = clientAlive \ {c}
    /\ UNCHANGED <<Client, clientOpen, nCreated, calls, csPc, csErr, csSession,
                   callVars>>

(***************************************************************************)
(*                             Connect.ConTerm                             *)
(***************************************************************************)
\* terminal widths and heights are 1..MaxDim
MaxDim == 2

\* SendKeepAlive sends at most MaxKeepAlive requests in the model
MaxKeepAlive == 2

Dims == (1..MaxDim) \X (1..MaxDim)

\* the modes the local terminal can be in before ConTerm is called
PriorTermStates == {"cooked", "cbreak"}

VARIABLES
    termState,     \* the mode of the local terminal
    priorState,    \* history: its mode when ConTerm was called
    state,         \* the *terminal.State MakeRaw returned ("none" before)
    madeRaw,       \* history: MakeRaw succeeded
    deferred,      \* the deferred calls of ConTerm, last one first
    IsLocalRc,     \* Connect.IsLocalRc
    GOOS,          \* runtime.GOOS
    localSize,     \* the size of the local terminal, <<width, height>>
    size,          \* the locals width, height (<<0, 0>> before GetSize)
    pty,           \* the remote pty: "none", or <<height, width>>
    shell,         \* "none" | "shell" | "localrc"
    watcher,       \* the resize goroutine: "none" | "watching"
    keepAlive,     \* the SendKeepAlive goroutine: "none" | "running"
    kaSent,        \* keepalive requests sent
    ctErr,         \* the err ConTerm returns ("" is nil)
    ctExit,        \* history: the step whose return statement ran
    ctPc           \* "off" | "makeRaw" | "getSize" | "requestPty" | "startShell"
                   \* | "resize" | "keepalive" | "wait" | "defers" | "returned"

termVars == <<termState, priorState, state, madeRaw, deferred, IsLocalRc, GOOS,
              localSize, size, pty, shell, watcher, keepAlive, kaSent, ctErr,
              ctExit, ctPc>>

TermInit ==
    /\ termState \in PriorTermStates
    /\ priorState = termState
    /\ state = "none"
    /\ madeRaw = FALSE
    /\ deferred = <<>>
    /\ IsLocalRc \in BOOLEAN
    /\ GOOS \in {"linux", "windows"}
    /\ localSize \in Dims
    /\ size = <<0, 0>>
    /\ pty = "none"
    /\ shell = "none"
    /\ watcher = "none"
    /\ keepAlive = "none"
    /\ kaSent = 0
    /\ ctErr = ""
    /\ ctExit = "none"
    /\ ctPc = "makeRaw"

TermOff ==
    /\ termState = "cooked"
    /\ priorState = "cooked"
    /\ state = "none"
    /\ madeRaw = FALSE
    /\ deferred = <<>>
    /\ IsLocalRc = FALSE
    /\ GOOS = "linux"
    /\ localSize = <<1, 1>>
    /\ size = <<0, 0>>
    /\ pty = "none"
    /\ shell = "none"
    /\ watcher = "none"
    /\ keepAlive = "none"
    /\ kaSent = 0
    /\ ctErr = ""
    /\ ctExit = "none"
    /\ ctPc = "off"

\* a return statement of ConTerm: the deferred calls run next
ConTermReturn(from, err) ==
    /\ ctErr' = err
    /\ ctExit' = from
    /\ ctPc' = "defers"

\* MakeRaw succeeding without the Restore being deferred
ConTermMakeRawNoDefer ==
    /\ ctPc = "makeRaw"
    /\ \/ /\ state' = termState
          /\ termState' = "raw"
          /\ madeRaw' = TRUE
          /\ UNCHANGED deferred
          /\ ctPc' = "getSize"
          /\ UNCHANGED <<ctErr, ctExit>>
       \/ /\ ConTermReturn("makeRaw", "makeraw error")
          /\ UNCHANGED <<state, termState, madeRaw, deferred>>
    /\ UNCHANGED <<priorState, IsLocalRc, GOOS, localSize, size, pty, shell,
                   watcher, keepAlive, kaSent>>

\* state, err := terminal.MakeRaw(fd); if err != nil { return }
\* defer terminal.Restore(fd, state)
ConTermMakeRaw ==
    /\ ctPc = "makeRaw"
    /\ \/ /\ state' = termState
          /\ termState' = "raw"
          /\ madeRaw' = TRUE
          /\ deferred' = <<[call |-> "Restore", state |-> termState]>> \o deferred
          /\ ctPc' = "getSize"
          /\ UNCHANGED <<ctErr, ctExit>>
       \/ /\ ConTermReturn("makeRaw", "makeraw error")
          /\ UNCHANGED <<state, termState, madeRaw, deferred>>
    /\ UNCHANGED <<priorState, IsLocalRc, GOOS, localSize, size, pty, shell,
                   watcher, keepAlive, kaSent>>

\* width, height, err := terminal.GetSize(fd); if err != nil { return }
ConTermGetSize ==
    /\ ctPc = "getSize"
    /\ \/ /\ size' = localSize
          /\ ctPc' = "requestPty"
          /\ UNCHANGED <<ctErr, ctExit>>
       \/ /\ ConTermReturn("getSize", "getsize error")
          /\ UNCHANGED size
    /\ UNCHANGED <<termState, priorState, state, madeRaw, deferred, IsLocalRc,
                   GOOS, localSize, pty, shell, watcher, keepAlive, kaSent>>

\* err = session.RequestPty(term, height, width, modes); if err != nil { return }
ConTermRequestPty ==
    /\ ctPc = "requestPty"
    /\ \/ /\ pty' = <<size[2], size[1]>>
          /\ ctPc' = "startShell"
          /\ UNCHANGED <<ctErr, ctExit>>
       \/ /\ ConTermReturn("requestPty", "pty error")
          /\ UNCHANGED pty
    /\ UNCHANGED <<termState, priorState, state, madeRaw, deferred, IsLocalRc,
                   GOOS, localSize, size, shell, watcher, keepAlive, kaSent>>

\* if c.IsLocalRc { runLocalRcShell(session) } else { session.Shell() }
ConTermStartShell ==
    /\ ctPc = "startShell"
    /\ \/ /\ shell' = IF IsLocalRc THEN "localrc" ELSE "shell"
          /\ ctPc' = "resize"
          /\ UNCHANGED <<ctErr, ctExit>>
       \/ /\ ConTermReturn(IF IsLocalRc THEN "runLocalRcShell" ELSE "Shell",
                           "shell error")
          /\ UNCHANGED shell
    /\ UNCHANGED <<termState, priorState, state, madeRaw, deferred, IsLocalRc,
                   GOOS, localSize, size, pty, watcher, keepAlive, kaSent>>

\* if runtime.GOOS != "windows" { signal.Notify(...); go func() {...}() }
ConTermWatchResize ==
    /\ ctPc = "resize"
    /\ watcher' = IF GOOS # "windows" THEN "watching" ELSE watcher
    /\ ctPc' = "keepalive"
    /\ UNCHANGED <<termState, priorState, state, madeRaw, deferred, IsLocalRc,
                   GOOS, localSize, size, pty, shell, keepAlive, kaSent, ctErr,
                   ctExit>>

\* go c.SendKeepAlive(session)
ConTermStartKeepAlive ==
    /\ ctPc = "keepalive"
    /\ keepAlive' = "running"
    /\ ctPc' = "wait"
    /\ UNCHANGED <<termState, priorState, state, madeRaw, deferred, IsLocalRc,
                   GOOS, localSize, size, pty, shell, watcher, kaSent, ctErr,
                   ctExit>>

\* err = session.Wait(); if err != nil { return }; return
ConTermWait ==
    /\ ctPc = "wait"
    /\ \/ ConTermReturn("wait", "wait error")
       \/ ConTermReturn("end", "")
    /\ UNCHANGED <<termState, priorState, state, madeRaw, deferred, IsLocalRc,
                   GOOS, localSize, size, pty, shell, watcher, keepAlive, kaSent>>

\* the deferred calls run, last one first, and ConTerm returns
ConTermRunDefers ==
    /\ ctPc = "defers"
    /\ IF deferred = <<>>
       THEN /\ ctPc' = "returned"
            /\ UNCHANGED <<termState, deferred>>
       ELSE \* terminal.Restore(fd, state)
            /\ termState' = Head(deferred).state
            /\ deferred' = Tail(deferred)
            /\ UNCHANGED ctPc
    /\ UNCHANGED <<priorState, state, madeRaw, IsLocalRc, GOOS, localSize, size,
                   pty, shell, watcher, keepAlive, kaSent, ctErr, ctExit>>

\* the resize goroutine: a window-change signal arrives, the new size is read
\* and sent with session.WindowChange(height, width)
ResizeSignal ==
    /\ watcher = "watching"
    /\ \E d \in Dims \ {localSize} :
         /\ localSize' = d
         /\ size' = d
         /\ pty' = <<d[2], d[1]>>
    /\ UNCHANGED <<termState, priorState, state, madeRaw, deferred, IsLocalRc,
                   GOOS, shell, watcher, keepAlive, kaSent, ctErr, ctExit, ctPc>>

\* SendKeepAlive: one round of its endless loop
SendKeepAlive ==
    /\ keepAlive = "running"
    /\ kaSent < MaxKeepAlive
    /\ kaSent' = kaSent + 1
    /\ UNCHANGED <<termState, priorState, state, madeRaw, deferred, IsLocalRc,
                   GOOS, localSize, size, pty, shell, watcher, keepAlive, ctErr,
                   ctExit, ctPc>>

(***************************************************************************)
(*               Connect.RunCmdWithOutput (and its caller)                 *)
(***************************************************************************)
\* the command writes at most MaxOut bytes in all
MaxOut == 3

\* one Write carries at most MaxChunk bytes
MaxChunk == 2

\* the bytes of the model: a letter and the line terminator '\n'
Bytes == {"a", "\n"}

Chunks == UNION {[1..n -> Bytes] : n \in 1..MaxChunk}

RECURSIVE Concat(_)
Concat(ss) == IF ss = <<>> THEN <<>> ELSE Head(ss) \o Concat(Tail(ss))

IsPrefix(s, t) == Len(s) <= Len(t) /\ s = SubSeq(t, 1, Len(s))

VARIABLES
    outputBuf,     \* the unread bytes of outputBuf (a bytes.Buffer)
    inFlight,      \* the Write in progress: <<>> or the bytes being stored
    written,       \* history: every byte the command wrote, in order
    line,          \* the local `line`
    outputChan,    \* the elements sent on outputChan, in order
    outClosed,     \* outputChan has been closed
    runPc,         \* the goroutine running RunCmd: "off" | "running"
                   \* | "exited" (isExit <- true is pending) | "joined"
    drainPc        \* RunCmdWithOutput: "off" | "loop" | "read" | "send"
                   \* | "select" | "lastTest" | "lastRead" | "lastSend"
                   \* | "done" | "closed"

outVars == <<outputBuf, inFlight, written, line, outputChan, outClosed, runPc,
             drainPc>>

\* the index of the first '\n' of b, or 0
IndexByte(b) ==
    IF \E i \in 1..Len(b) : b[i] = "\n"
    THEN CHOOSE i \in 1..Len(b) : b[i] = "\n" /\ \A j \in 1..(i - 1) : b[j] # "\n"
    ELSE 0

\* bytes.Buffer.ReadBytes('\n'): the bytes up to and including the first
\* terminator; without one, all the unread bytes and io.EOF
ReadBytes(b) ==
    LET i == IndexByte(b)
    IN  IF i > 0
        THEN [line |-> SubSeq(b, 1, i), rest |-> SubSeq(b, i + 1, Len(b)),
              err |-> ""]
        ELSE [line |-> b, rest |-> <<>>, err |-> "EOF"]

OutInit ==
    /\ outputBuf = <<>>
    /\ inFlight = <<>>
    /\ written = <<>>
    /\ line = <<>>
    /\ outputChan = <<>>
    /\ outClosed = FALSE
    /\ runPc = "running"
    /\ drainPc = "loop"

OutOff ==
    /\ outputBuf = <<>>
    /\ inFlight = <<>>
    /\ written = <<>>
    /\ line = <<>>
    /\ outputChan = <<>>
    /\ outClosed = FALSE
    /\ runPc = "off"
    /\ drainPc = "off"

\* the session writes a chunk of the command's output to session.Stdout or
\* session.Stderr, both of which are outputBuf; the Write as one step
SessionWrite ==
    /\ runPc = "running"
    /\ inFlight = <<>>
    /\ \E p \in Chunks :
         /\ Len(written) + Len(p) <= MaxOut
         /\ outputBuf' = outputBuf \o p
         /\ written' = written \o p
    /\ UNCHANGED <<inFlight, line, outputChan, outClosed, runPc, drainPc>>

\* outputBuf is shared, with no lock, by the session's writers and the drain
\* loop.  A Write that races with the loop is not one step: the buffer first
\* grows by the length of the chunk, and until the bytes are stored the
\* grown part holds whatever the memory held.
SessionWriteGrow ==
    /\ runPc = "running"
    /\ inFlight = <<>>
    /\ \E p \in Chunks :
         /\ Len(written) + Len(p) <= MaxOut
         /\ \E g \in [1..Len(p) -> Bytes] : outputBuf' = outputBuf \o g
         /\ inFlight' = p
         /\ written' = written \o p
    /\ UNCHANGED <<line, outputChan, outClosed, runPc, drainPc>>

\* the racing Write stores its bytes; the part of the grown region that the
\* drain loop has already read is not touched again
SessionWriteStore ==
    /\ inFlight # <<>>
    /\ LET r == IF Len(inFlight) < Len(outputBuf) THEN Len(inFlight)
                ELSE Len(outputBuf)
       IN  outputBuf' = SubSeq(outputBuf, 1, Len(outputBuf) - r)
                        \o SubSeq(inFlight, Len(inFlight) - r + 1, Len(inFlight))
    /\ inFlight' = <<>>
    /\ UNCHANGED <<written, line, outputChan, outClosed, runPc, drainPc>>

\* session.Run returns (every Write is complete), RunCmd returns, and the
\* goroutine offers isExit <- true
RunCmdExit ==
    /\ runPc = "running"
    /\ inFlight = <<>>
    /\ runPc' = "exited"
    /\ UNCHANGED <<outputBuf, inFlight, written, line, outputChan, outClosed,
                   drainPc>>

\* GetOutputLoop: if outputBuf.Len() > 0
DrainTest ==
    /\ drainPc = "loop"
    /\ drainPc' = IF Len(outputBuf) > 0 THEN "read" ELSE "select"
    /\ UNCHANGED <<outputBuf, inFlight, written, line, outputChan, outClosed,
                   runPc>>

\* line, _ := outputBuf.ReadBytes('\n')
DrainRead ==
    /\ drainPc = "read"
    /\ LET r == ReadBytes(outputBuf)
       IN  /\ line' = r.line
           /\ outputBuf' = r.rest
    /\ drainPc' = "send"
    /\ UNCHANGED <<inFlight, written, outputChan, outClosed, runPc>>

\* outputChan <- line
DrainSend ==
    /\ drainPc = "send"
    /\ outputChan' = Append(outputChan, line)
    /\ drainPc' = "loop"
    /\ UNCHANGED <<outputBuf, inFlight, written, line, outClosed, runPc>>

\* select { case <-isExit: break GetOutputLoop }
DrainSelectExit ==
    /\ drainPc = "select"
    /\ runPc = "exited"
    /\ runPc' = "joined"
    /\ drainPc' = "lastTest"
    /\ UNCHANGED <<outputBuf, inFlight, written, line, outputChan, outClosed>>

\* select { case <-time.After(10 * time.Millisecond): continue GetOutputLoop }
DrainSelectTimeout ==
    /\ drainPc = "select"
    /\ drainPc' = "loop"
    /\ UNCHANGED <<outputBuf, inFlight, written, line, outputChan, outClosed,
                   runPc>>

\* last check: if outputBuf.Len() > 0 { for { ... } }
DrainLastTest ==
    /\ drainPc = "lastTest"
    /\ drainPc' = IF Len(outputBuf) > 0 THEN "lastRead" ELSE "done"
    /\ UNCHANGED <<outputBuf, inFlight, written, line, outputChan, outClosed,
                   runPc>>

\* line, err := outputBuf.ReadBytes('\n'); if err != io.EOF {...} else { break }
DrainLastRead ==
    /\ drainPc = "lastRead"
    /\ LET r == ReadBytes(outputBuf)
       IN  /\ line' = r.line
           /\ outputBuf' = r.rest
           /\ drainPc' = IF r.err # "EOF" THEN "lastSend" ELSE "done"
    /\ UNCHANGED <<inFlight, written, outputChan, outClosed, runPc>>

\* outputChan <- line (in the last check)
DrainLastSend ==
    /\ drainPc = "lastSend"
    /\ outputChan' = Append(outputChan, line)
    /\ drainPc' = "lastRead"
    /\ UNCHANGED <<outputBuf, inFlight, written, line, outClosed, runPc>>

\* cmdRun: RunCmdWithOutput has returned; case <-isExit: close(outputChan)
CmdRunCloseOutput ==
    /\ drainPc = "done"
    /\ outClosed' = TRUE
    /\ drainPc' = "closed"
    /\ UNCHANGED <<outputBuf, inFlight, written, line, outputChan, runPc>>

(***************************************************************************)
(*                         Run.cmd and Run.cmdRun                          *)
(***************************************************************************)
\* r.ServerList holds 1..MaxHosts servers
MaxHosts == 2

\* RunCmdWithOutput sends at most MaxLines elements per host
MaxLines == 2

VARIABLES
    nHosts,        \* len(r.ServerList)
    IsParallel,    \* r.IsParallel
    hasStdin,      \* len(r.StdinData) > 0
    mainPc,        \* cmd: "off" | "loop" | "print" | "afterLoop" | "wait"
                   \* | "closeExit" | "returned"
    launched,      \* the loop of cmd: the hosts whose iteration has started
    task,          \* per host, the goroutine running cmdRun and finished<-true:
                   \* "idle" | "createSession" | "stdin" | "publish" | "run"
                   \* | "sending" | "close" | "finish" | "done"
    sessOK,        \* per host, how conn.CreateSession ended: "none"|"ok"|"fail"
    oSent,         \* per host, the elements RunCmdWithOutput put on outputChan
    oRecv,         \* per host, the elements its consumer received
    oPrinted,      \* per host, the elements its consumer rendered
    chClosed,      \* per host, outputChan is closed
    consumer,      \* per host, printOutput: "none" | "recv" | "print" | "done"
    finishedSent,  \* per host, the sends on finished that completed
    finishedRecv,  \* the receives of cmd on finished
    collector,     \* the goroutine of lines 72-84: "none" | "collect"
                   \* | "built" | "skipped"
    writers,       \* the hosts whose input handle the collector received
    pushInput,     \* the input-copy task: "none" | "running" | "stopped"
    exitInput      \* exitInput: "open" | "closed"

cmdVars == <<nHosts, IsParallel, hasStdin, mainPc, launched, task, sessOK, oSent,
             oRecv, oPrinted, chClosed, consumer, finishedSent,
             finishedRecv, collector, writers, pushInput, exitInput>>

\* the indices of r.ServerList
Hosts == 1..nHosts

\* conns := r.createConn(): one Connect per entry of r.ServerList
Conns == Hosts

\* r.IsParallel || len(r.ServerList) == 1
Concurrent == IsParallel \/ nHosts = 1

CmdInit ==
    /\ nHosts \in 1..MaxHosts
    /\ IsParallel \in BOOLEAN
    /\ hasStdin \in BOOLEAN
    /\ mainPc = "loop"
    /\ launched = 0
    /\ task = [h \in Hosts |-> "idle"]
    /\ sessOK = [h \in Hosts |-> "none"]
    /\ oSent = [h \in Hosts |-> 0]
    /\ oRecv = [h \in Hosts |-> 0]
    /\ oPrinted = [h \in Hosts |-> 0]
    /\ chClosed = [h \in Hosts |-> FALSE]
    /\ consumer = [h \in Hosts |-> "none"]
    /\ finishedSent = [h \in Hosts |-> 0]
    /\ finishedRecv = 0
    /\ collector = "none"
    /\ writers = {}
    /\ pushInput = "none"
    /\ exitInput = "open"

CmdOff ==
    /\ nHosts = 0
    /\ IsParallel = FALSE
    /\ hasStdin = FALSE
    /\ mainPc = "off"
    /\ launched = 0
    /\ task = <<>>
    /\ sessOK = <<>>
    /\ oSent = <<>>
    /\ oRecv = <<>>
    /\ oPrinted = <<>>
    /\ chClosed = <<>>
    /\ consumer = <<>>
    /\ finishedSent = <<>>
    /\ finishedRecv = 0
    /\ collector = "none"
    /\ writers = {}
    /\ pushInput = "none"
    /\ exitInput = "open"

\* an iteration that starts the consumer as a goroutine in every mode
CmdLaunchAlwaysGo ==
    /\ mainPc = "loop"
    /\ launched < Cardinality(Conns)
    /\ LET h == launched + 1
       IN  /\ launched' = h
           /\ task' = [task EXCEPT ![h] = "createSession"]
           /\ consumer' = [consumer EXCEPT ![h] = "recv"]
           /\ mainPc' = "loop"
    /\ UNCHANGED <<nHosts, IsParallel, hasStdin, sessOK, oSent, oRecv, oPrinted,
                   chClosed, finishedSent, finishedRecv, collector,
                   writers, pushInput, exitInput>>

\* one iteration of `for i, conn := range conns`: the host's goroutine is
\* started, and its consumer is started as a goroutine (parallel mode or one
\* connection) or is run inline
CmdLaunch ==
    /\ mainPc = "loop"
    /\ launched < Cardinality(Conns)
    /\ LET h == launched + 1
       IN  /\ launched' = h
           /\ task' = [task EXCEPT ![h] = "createSession"]
           /\ consumer' = [consumer EXCEPT ![h] = "recv"]
           /\ mainPc' = IF IsParallel \/ Cardinality(Conns) = 1
                        THEN "loop" ELSE "print"
    /\ UNCHANGED <<nHosts, IsParallel, hasStdin, sessOK, oSent, oRecv, oPrinted,
                   chClosed, finishedSent, finishedRecv, collector,
                   writers, pushInput, exitInput>>

\* the inline printOutput(o, outputChan) of the current host has returned
CmdInlinePrintDone ==
    /\ mainPc = "print"
    /\ consumer[launched] = "done"
    /\ mainPc' = "loop"
    /\ UNCHANGED <<nHosts, IsParallel, hasStdin, launched, task, sessOK, oSent,
                   oRecv, oPrinted, chClosed, consumer, finishedSent,
                   finishedRecv, collector, writers, pushInput, exitInput>>

\* the loop is over: if r.IsParallel || len(r.ServerList) == 1 the collector
\* goroutine is started and cmd waits, otherwise cmd goes on to close(exitInput)
CmdAfterLoop ==
    /\ mainPc = "loop"
    /\ launched = Cardinality(Conns)
    /\ IF Concurrent
       THEN /\ collector' = "collect"
            /\ mainPc' = "wait"
       ELSE /\ mainPc' = "closeExit"
            /\ UNCHANGED collector
    /\ UNCHANGED <<nHosts, IsParallel, hasStdin, launched, task, sessOK, oSent,
                   oRecv, oPrinted, chClosed, consumer, finishedSent,
                   finishedRecv, writers, pushInput, exitInput>>

\* <-finished, in the wait loop of cmd, meeting finished <- true of host h
CmdRecvFinished(h) ==
    /\ mainPc = "wait"
    /\ finishedRecv < nHosts
    /\ task[h] = "finish"
    /\ task' = [task EXCEPT ![h] = "done"]
    /\ finishedSent' = [finishedSent EXCEPT ![h] = @ + 1]
    /\ finishedRecv' = finishedRecv + 1
    /\ UNCHANGED <<nHosts, IsParallel, hasStdin, mainPc, launched, sessOK, oSent,
                   oRecv, oPrinted, chClosed, consumer, collector,
                   writers, pushInput, exitInput>>

\* a wait loop that runs one round short
CmdWaitDoneShort ==
    /\ mainPc = "wait"
    /\ finishedRecv >= nHosts - 1
    /\ mainPc' = "closeExit"
    /\ UNCHANGED <<nHosts, IsParallel, hasStdin, launched, task, sessOK, oSent,
                   oRecv, oPrinted, chClosed, consumer, finishedSent,
                   finishedRecv, collector, writers, pushInput, exitInput>>

\* the wait loop `for i := 0; i < len(r.ServerList); i++` is over
CmdWaitDone ==
    /\ mainPc = "wait"
    /\ finishedRecv = nHosts
    /\ mainPc' = "closeExit"
    /\ UNCHANGED <<nHosts, IsParallel, hasStdin, launched, task, sessOK, oSent,
                   oRecv, oPrinted, chClosed, consumer, finishedSent,
                   finishedRecv, collector, writers, pushInput, exitInput>>

\* close(exitInput); return
CmdCloseExit ==
    /\ mainPc = "closeExit"
    /\ exitInput' = "closed"
    /\ mainPc' = "returned"
    /\ UNCHANGED <<nHosts, IsParallel, hasStdin, launched, task, sessOK, oSent,
                   oRecv, oPrinted, chClosed, consumer, finishedSent,
                   finishedRecv, collector, writers, pushInput>>

\* a host goroutine that ends without its finished signal when CreateSession
\* fails
CmdRunCreateSessionNoFinish(h) ==
    /\ task[h] = "createSession"
    /\ \/ /\ sessOK' = [sessOK EXCEPT ![h] = "ok"]
          /\ task' = [task EXCEPT ![h] = "stdin"]
          /\ UNCHANGED chClosed
       \/ /\ sessOK' = [sessOK EXCEPT ![h] = "fail"]
          /\ chClosed' = [chClosed EXCEPT ![h] = TRUE]
          /\ task' = [task EXCEPT ![h] = "done"]
    /\ UNCHANGED <<nHosts, IsParallel, hasStdin, mainPc, launched, oSent, oRecv,
                   oPrinted, consumer, finishedSent, finishedRecv,
                   collector, writers, pushInput, exitInput>>

\* cmdRun: session, err := conn.CreateSession(); on an error the output
\* stream is closed and cmdRun returns
CmdRunCreateSession(h) ==
    /\ task[h] = "createSession"
    /\ \/ /\ sessOK' = [sessOK EXCEPT ![h] = "ok"]
          /\ task' = [task EXCEPT ![h] = "stdin"]
          /\ UNCHANGED chClosed
       \/ /\ sessOK' = [sessOK EXCEPT ![h] = "fail"]
          /\ chClosed' = [chClosed EXCEPT ![h] = TRUE]
          /\ task' = [task EXCEPT ![h] = "finish"]
    /\ UNCHANGED <<nHosts, IsParallel, hasStdin, mainPc, launched, oSent, oRecv,
                   oPrinted, consumer, finishedSent, finishedRecv,
                   collector, writers, pushInput, exitInput>>

\* a "set stdin" that publishes the session's StdinPipe even with piped data
CmdRunSetStdinAlwaysPublish(h) ==
    /\ task[h] = "stdin"
    /\ task' = [task EXCEPT ![h] =
                  IF IsParallel \/ nHosts = 1 THEN "publish" ELSE "run"]
    /\ UNCHANGED <<nHosts, IsParallel, hasStdin, mainPc, launched, sessOK, oSent,
                   oRecv, oPrinted, chClosed, consumer, finishedSent,
                   finishedRecv, collector, writers, pushInput, exitInput>>

\* cmdRun, "set stdin": piped data is attached to the session, or the
\* session's StdinPipe is about to be published, or nothing is done
CmdRunSetStdin(h) ==
    /\ task[h] = "stdin"
    /\ task' = [task EXCEPT ![h] =
                  IF hasStdin THEN "run"
                  ELSE IF IsParallel \/ nHosts = 1 THEN "publish"
                  ELSE "run"]
    /\ UNCHANGED <<nHosts, IsParallel, hasStdin, mainPc, launched, sessOK, oSent,
                   oRecv, oPrinted, chClosed, consumer, finishedSent,
                   finishedRecv, collector, writers, pushInput, exitInput>>

\* inputWriter <- writer of host h, meeting writer := <-inputWriter
CollectWriter(h) ==
    /\ task[h] = "publish"
    /\ collector = "collect"
    /\ ~hasStdin
    /\ Cardinality(writers) < nHosts
    /\ writers' = writers \cup {h}
    /\ task' = [task EXCEPT ![h] = "run"]
    /\ UNCHANGED <<nHosts, IsParallel, hasStdin, mainPc, launched, sessOK, oSent,
                   oRecv, oPrinted, chClosed, consumer, finishedSent,
                   finishedRecv, collector, pushInput, exitInput>>

\* the collector goroutine: with piped input it returns at once; otherwise,
\* after len(r.ServerList) handles, it builds the MultiWriter and starts
\* pushInput
CollectorStep ==
    /\ collector = "collect"
    /\ IF hasStdin
       THEN /\ collector' = "skipped"
            /\ UNCHANGED pushInput
       ELSE /\ Cardinality(writers) = nHosts
            /\ collector' = "built"
            /\ pushInput' = "running"
    /\ UNCHANGED <<nHosts, IsParallel, hasStdin, mainPc, launched, task, sessOK,
                   oSent, oRecv, oPrinted, chClosed, consumer,
                   finishedSent, finishedRecv, writers, exitInput>>

\* pushInput stops once exitInput is closed
PushInputStop ==
    /\ pushInput = "running"
    /\ exitInput = "closed"
    /\ pushInput' = "stopped"
    /\ UNCHANGED <<nHosts, IsParallel, hasStdin, mainPc, launched, task, sessOK,
                   oSent, oRecv, oPrinted, chClosed, consumer,
                   finishedSent, finishedRecv, collector, writers, exitInput>>

\* RunCmdWithOutput of host h reaches outputChan <- line
RunCmdSendLine(h) ==
    /\ task[h] = "run"
    /\ oSent[h] < MaxLines
    /\ oSent' = [oSent EXCEPT ![h] = @ + 1]
    /\ task' = [task EXCEPT ![h] = "sending"]
    /\ UNCHANGED <<nHosts, IsParallel, hasStdin, mainPc, launched, sessOK, oRecv,
                   oPrinted, chClosed, consumer, finishedSent,
                   finishedRecv, collector, writers, pushInput, exitInput>>

\* RunCmdWithOutput of host h returns and its goroutine signals isExit
RunCmdReturn(h) ==
    /\ task[h] = "run"
    /\ task' = [task EXCEPT ![h] = "close"]
    /\ UNCHANGED <<nHosts, IsParallel, hasStdin, mainPc, launched, sessOK, oSent,
                   oRecv, oPrinted, chClosed, consumer, finishedSent,
                   finishedRecv, collector, writers, pushInput, exitInput>>

\* cmdRun: case <-isExit: close(outputChan); cmdRun returns
CmdRunClose(h) ==
    /\ task[h] = "close"
    /\ chClosed' = [chClosed EXCEPT ![h] = TRUE]
    /\ task' = [task EXCEPT ![h] = "finish"]
    /\ UNCHANGED <<nHosts, IsParallel, hasStdin, mainPc, launched, sessOK, oSent,
                   oRecv, oPrinted, consumer, finishedSent,
                   finishedRecv, collector, writers, pushInput, exitInput>>

\* printOutput of host h receives the element its host is sending
PrintOutputRecv(h) ==
    /\ consumer[h] = "recv"
    /\ task[h] = "sending"
    /\ oRecv' = [oRecv EXCEPT ![h] = @ + 1]
    /\ consumer' = [consumer EXCEPT ![h] = "print"]
    /\ task' = [task EXCEPT ![h] = "run"]
    /\ UNCHANGED <<nHosts, IsParallel, hasStdin, mainPc, launched, sessOK, oSent,
                   oPrinted, chClosed, finishedSent, finishedRecv,
                   collector, writers, pushInput, exitInput>>

\* printOutput of host h renders the element it received
PrintOutputRender(h) ==
    /\ consumer[h] = "print"
    /\ oPrinted' = [oPrinted EXCEPT ![h] = @ + 1]
    /\ consumer' = [consumer EXCEPT ![h] = "recv"]
    /\ UNCHANGED <<nHosts, IsParallel, hasStdin, mainPc, launched, task, sessOK,
                   oSent, oRecv, chClosed, finishedSent, finishedRecv, collector,
                   writers, pushInput, exitInput>>

\* printOutput of host h finds its stream closed and returns
PrintOutputEnd(h) ==
    /\ consumer[h] = "recv"
    /\ chClosed[h]
    /\ consumer' = [consumer EXCEPT ![h] = "done"]
    /\ UNCHANGED <<nHosts, IsParallel, hasStdin, mainPc, launched, task, sessOK,
                   oSent, oRecv, oPrinted, chClosed, finishedSent,
                   finishedRecv, collector, writers, pushInput, exitInput>>

(***************************************************************************)
(*                      Connect.createClientOverProxy                      *)
(***************************************************************************)
\* a chain has at most MaxHops hops
MaxHops == 3

VARIABLES
    cpProxyList,    \* the kinds of the hops of proxyList, in list order
    cpIdx,          \* the hops the for loop has gone through
    cpErr,          \* the function's result variable err ("" is nil)
    cpProxyClient,  \* proxyClient: 0 is nil, i the client of hop i
    cpProxyDialer,  \* proxyDialer: 0 is nil, i the dialer of hop i
    cpClient,       \* c.Client: "nil" | "old" | "new"
    cpClient0,      \* history: c.Client when the function was entered
    cpAttempts,     \* history: the hops and the target the function tried to
                    \* establish, in order, each with its outcome
    cpRet,          \* the returned error: "none" (not returned) | "" | an error
    cpPc            \* "off" | "loop" | "target" | "done"

viaVars == <<cpProxyList, cpIdx, cpErr, cpProxyClient, cpProxyDialer, cpClient,
             cpClient0, cpAttempts, cpRet, cpPc>>

\* proxyType[proxy] of the cases "http", "https" and "socks5"
TunnelKinds == {"http", "https", "socks5"}

\* the hop kinds of a chain: SSH hops, with or without a tunnel hop in front
RECURSIVE SshHops(_)
SshHops(n) == IF n = 0 THEN <<>> ELSE <<"ssh">> \o SshHops(n - 1)

HopLists ==
    {SshHops(n) : n \in 0..MaxHops}
    \cup {<<k>> \o SshHops(n) : k \in TunnelKinds, n \in 0..(MaxHops - 1)}

\* the state after `proxyList, proxyType, err := GetProxyList(...)`: err is
\* nil for every configuration (the error return of GetProxyList cannot be
\* reached), so the early return of line 164 is never taken
ViaInit ==
    /\ cpProxyList \in HopLists
    /\ cpIdx = 0
    /\ cpErr = ""
    /\ cpProxyClient = 0
    /\ cpProxyDialer = 0
    /\ cpClient \in {"nil", "old"}
    /\ cpClient0 = cpClient
    /\ cpAttempts = <<>>
    /\ cpRet = "none"
    /\ cpPc = "loop"

ViaOff ==
    /\ cpProxyList = <<>>
    /\ cpIdx = 0
    /\ cpErr = ""
    /\ cpProxyClient = 0
    /\ cpProxyDialer = 0
    /\ cpClient = "nil"
    /\ cpClient0 = "nil"
    /\ cpAttempts = <<>>
    /\ cpRet = "none"
    /\ cpPc = "off"

\* `if err != nil { return err }` after the switch: the err it tests is the
\* function's result variable
AfterSwitch(outerErr, i) ==
    IF outerErr # ""
    THEN /\ cpRet' = outerErr
         /\ cpPc' = "done"
         /\ cpIdx' = cpIdx
    ELSE /\ cpRet' = cpRet
         /\ cpPc' = IF i = Len(cpProxyList) THEN "target" ELSE "loop"
         /\ cpIdx' = i

\* case "http", "https" / case "socks5": proxyDialer, err = createProxyDialer...
OverProxyTunnelHop ==
    /\ cpPc = "loop"
    /\ cpIdx < Len(cpProxyList)
    /\ cpProxyList[cpIdx + 1] \in TunnelKinds
    /\ LET i == cpIdx + 1
       IN  \E ok \in BOOLEAN :
             /\ cpAttempts' = Append(cpAttempts, [what |-> i, ok |-> ok])
             /\ cpProxyDialer' = IF ok THEN i ELSE 0
             /\ cpErr' = IF ok THEN "" ELSE "dialer error"
             /\ AfterSwitch(cpErr', i)
    /\ UNCHANGED <<cpProxyList, cpProxyClient, cpClient, cpClient0>>

\* default: proxySshConf, err := c.createClientConfig(proxy) declares a new
\* err for the case clause; a failure of createClientConfig returns it; the
\* err of createClientViaProxy is assigned to that new err, and the test
\* after the switch reads the function's result variable, which is unchanged
OverProxySshHop ==
    /\ cpPc = "loop"
    /\ cpIdx < Len(cpProxyList)
    /\ cpProxyList[cpIdx + 1] = "ssh"
    /\ LET i == cpIdx + 1
       IN  \/ /\ cpRet' = "config error"
              /\ cpPc' = "done"
              /\ UNCHANGED <<cpIdx, cpErr, cpProxyClient, cpAttempts>>
           \/ \E ok \in BOOLEAN :
                /\ cpAttempts' = Append(cpAttempts, [what |-> i, ok |-> ok])
                /\ cpProxyClient' = IF ok THEN i ELSE 0
                /\ cpErr' = cpErr
                /\ AfterSwitch(cpErr', i)
    /\ UNCHANGED <<cpProxyList, cpProxyDialer, cpClient, cpClient0>>

\* the loop is over at once when proxyList is empty
OverProxyNoHops ==
    /\ cpPc = "loop"
    /\ Len(cpProxyList) = 0
    /\ cpPc' = "target"
    /\ UNCHANGED <<cpProxyList, cpIdx, cpErr, cpProxyClient, cpProxyDialer,
                   cpClient, cpClient0, cpAttempts, cpRet>>

\* client, err := createClientViaProxy(serverConf, ...); c.Client = client
OverProxyTarget ==
    /\ cpPc = "target"
    /\ \E ok \in BOOLEAN :
         /\ cpAttempts' = Append(cpAttempts, [what |-> 0, ok |-> ok])
         /\ cpClient' = IF ok THEN "new" ELSE cpClient
         /\ cpRet' = IF ok THEN cpErr ELSE "dial error"
    /\ cpPc' = "done"
    /\ UNCHANGED <<cpProxyList, cpIdx, cpErr, cpProxyClient, cpProxyDialer,
                   cpClient0>>

(***************************************************************************)
(*                             Specifications                              *)
(***************************************************************************)
vars == <<proxyVars, sessVars, termVars, outVars, cmdVars, viaVars>>

notProxy == <<sessVars, termVars, outVars, cmdVars, viaVars>>

notSess == <<proxyVars, termVars, outVars, cmdVars, viaVars>>

notTerm == <<proxyVars, sessVars, outVars, cmdVars, viaVars>>

notOut == <<proxyVars, sessVars, termVars, cmdVars, viaVars>>

notCmd == <<proxyVars, sessVars, termVars, outVars, viaVars>>

NextProxy ==
    \/ GetProxyListIter /\ UNCHANGED notProxy
    \/ GetProxyListReturn /\ UNCHANGED notProxy

InitProxy == ProxyInit /\ SessOff /\ TermOff /\ OutOff /\ CmdOff /\ ViaOff

SpecProxy == InitProxy /\ [][NextProxy]_vars

\* GetProxyList is a sequential function: it keeps running while it can
FairSpecProxy == SpecProxy /\ WF_vars(NextProxy)

NextSess ==
    \/ CreateSessionCall /\ UNCHANGED notSess
    \/ CreateSessionNewConnect /\ UNCHANGED notSess
    \/ CreateSessionProbe /\ UNCHANGED notSess
    \/ CreateSessionRebuild /\ UNCHANGED notSess
    \/ CreateSessionNewSession /\ UNCHANGED notSess
    \/ TransportDies /\ UNCHANGED notSess

InitSess == SessInit /\ ProxyOff /\ TermOff /\ OutOff /\ CmdOff /\ ViaOff

SpecSess == InitSess /\ [][NextSess]_vars

NextTerm ==
    \/ ConTermMakeRaw /\ UNCHANGED notTerm
    \/ ConTermGetSize /\ UNCHANGED notTerm
    \/ ConTermRequestPty /\ UNCHANGED notTerm
    \/ ConTermStartShell /\ UNCHANGED notTerm
    \/ ConTermWatchResize /\ UNCHANGED notTerm
    \/ ConTermStartKeepAlive /\ UNCHANGED notTerm
    \/ ConTermWait /\ UNCHANGED notTerm
    \/ ConTermRunDefers /\ UNCHANGED notTerm
    \/ ResizeSignal /\ UNCHANGED notTerm
    \/ SendKeepAlive /\ UNCHANGED notTerm

InitTerm == TermInit /\ ProxyOff /\ SessOff /\ OutOff /\ CmdOff /\ ViaOff

SpecTerm == InitTerm /\ [][NextTerm]_vars

\* the steps of the drain loop and of its caller
NextDrain ==
    \/ DrainTest /\ UNCHANGED notOut
    \/ DrainRead /\ UNCHANGED notOut
    \/ DrainSend /\ UNCHANGED notOut
    \/ DrainSelectExit /\ UNCHANGED notOut
    \/ DrainSelectTimeout /\ UNCHANGED notOut
    \/ DrainLastTest /\ UNCHANGED notOut
    \/ DrainLastRead /\ UNCHANGED notOut
    \/ DrainLastSend /\ UNCHANGED notOut
    \/ CmdRunCloseOutput /\ UNCHANGED notOut
    \/ RunCmdExit /\ UNCHANGED notOut

InitOut == OutInit /\ ProxyOff /\ SessOff /\ TermOff /\ CmdOff /\ ViaOff

\* RunCmdWithOutput with every buffer operation taken as one step
NextOutAtomic ==
    \/ NextDrain
    \/ SessionWrite /\ UNCHANGED notOut

SpecOutAtomic == InitOut /\ [][NextOutAtomic]_vars

\* RunCmdWithOutput with the Writes racing with the drain loop
NextOut ==
    \/ NextDrain
    \/ SessionWriteGrow /\ UNCHANGED notOut
    \/ SessionWriteStore /\ UNCHANGED notOut

SpecOut == InitOut /\ [][NextOut]_vars

notVia == <<proxyVars, sessVars, termVars, outVars, cmdVars>>

NextVia ==
    \/ OverProxyTunnelHop /\ UNCHANGED notVia
    \/ OverProxySshHop /\ UNCHANGED notVia
    \/ OverProxyNoHops /\ UNCHANGED notVia
    \/ OverProxyTarget /\ UNCHANGED notVia

InitVia == ViaInit /\ ProxyOff /\ SessOff /\ TermOff /\ OutOff /\ CmdOff

SpecVia == InitVia /\ [][NextVia]_vars

\* cmd, the goroutines running cmdRun, the consumers, the collector and
\* pushInput
NextCmd ==
    \/ CmdLaunch /\ UNCHANGED notCmd
    \/ CmdInlinePrintDone /\ UNCHANGED notCmd
    \/ CmdAfterLoop /\ UNCHANGED notCmd
    \/ \E h \in Hosts : CmdRecvFinished(h) /\ UNCHANGED notCmd
    \/ CmdWaitDone /\ UNCHANGED notCmd
    \/ CmdCloseExit /\ UNCHANGED notCmd
    \/ \E h \in Hosts : CmdRunCreateSession(h) /\ UNCHANGED notCmd
    \/ \E h \in Hosts : CmdRunSetStdin(h) /\ UNCHANGED notCmd
    \/ \E h \in Hosts : CollectWriter(h) /\ UNCHANGED notCmd
    \/ \E h \in Hosts : RunCmdSendLine(h) /\ UNCHANGED notCmd
    \/ \E h \in Hosts : RunCmdReturn(h) /\ UNCHANGED notCmd
    \/ \E h \in Hosts : CmdRunClose(h) /\ UNCHANGED notCmd
    \/ \E h \in Hosts : PrintOutputRecv(h) /\ UNCHANGED notCmd
    \/ \E h \in Hosts : PrintOutputRender(h) /\ UNCHANGED notCmd
    \/ \E h \in Hosts : PrintOutputEnd(h) /\ UNCHANGED notCmd
    \/ CollectorStep /\ UNCHANGED notCmd
    \/ PushInputStop /\ UNCHANGED notCmd

InitCmd == CmdInit /\ ProxyOff /\ SessOff /\ TermOff /\ OutOff /\ ViaOff

SpecCmd == InitCmd /\ [][NextCmd]_vars

\* As long as some goroutine can take a step, one of them does (the Go
\* scheduler keeps running); CreateSession returns and the remote command
\* ends.
FairnessCmd == WF_vars(NextCmd)

FairSpecCmd == SpecCmd /\ FairnessCmd

(***************************************************************************)
(*                                 Claims                                  *)
(***************************************************************************)

\* the proxy reference of a name, as the walk reads it
ProxyRefOf(name) == ServerLookup(config, name).conf.Proxy

\* C4: when GetProxyList returns a hop list, the list is the reverse of the
\* order in which the walk collected the hops: the last hop is the target's
\* own proxy reference, and every earlier hop is the proxy reference of the
\* hop that follows it (dial order, farthest first).
C4_DialOrder ==
    (gpPc = "done" /\ gpErr = "") =>
        /\ proxyList = Reverse(collected)
        /\ Len(proxyList) > 0 => proxyList[Len(proxyList)] = ProxyRefOf(server)
        /\ \A i \in 1..(Len(proxyList) - 1) :
              proxyList[i] = ProxyRefOf(proxyList[i + 1])

\* a chain of two distinct hops has been resolved and returned
C4_Witness ==
    /\ gpPc = "done"
    /\ gpErr = ""
    /\ Len(proxyList) = 2
    /\ proxyList[1] # proxyList[2]
    /\ server \notin Range(proxyList)

\* the names the walk reached through a proxy reference
ReachedNames == Range(collected)

Unknown(name) == name \notin DOMAIN config.Server /\ name \notin config.Proxy

\* C5: whenever the walk has reached a referenced name that is neither a
\* configured server nor a configured proxy entry, GetProxyList returns the
\* "proxy not found" error together with an empty hop list.
C5_NotFoundError ==
    (gpPc = "done" /\ \E n \in ReachedNames : Unknown(n)) =>
        (gpErr # "" /\ proxyList = <<>>)

\* C6: within one CreateSession call the connection is rebuilt at most once,
\* and when that rebuild fails the call has returned a non-nil error without
\* requesting a session from any client.
C6_RebuildAtMostOnce ==
    /\ rebuilds <= 1
    /\ rebuildRes = "fail" =>
          (csPc = "returned" /\ csErr # "" /\ ~sessionAsked /\ csSession = 0)

\* a call whose probe failed and whose one rebuild failed has returned
C6_Witness ==
    /\ csPc = "returned"
    /\ probeRes = "fail"
    /\ rebuilds = 1
    /\ rebuildRes = "fail"

\* C7: in every call, a session is requested only from a present client that
\* either passed this call's liveness probe or was stored by this call's
\* successful rebuild after the probe failed.
C7_SessionOnlyFromCheckedClient ==
    sessionAsked =>
        /\ sessionFrom # NilClient
        /\ \/ probeRes = "ok" /\ sessionFrom = probed
           \/ /\ probeRes = "fail"
              /\ rebuildRes = "ok"
              /\ sessionFrom = rebuilt
              /\ sessionFrom # probed

\* a later call found its client stale, rebuilt it and asked the new client
C7_Witness ==
    /\ calls = 2
    /\ sessionAsked
    /\ probeRes = "fail"
    /\ rebuildRes = "ok"
    /\ sessionFrom = rebuilt

\* C8: whenever ConTerm has put the local terminal into raw mode, the terminal
\* is back in the mode recorded before raw mode by the time ConTerm has
\* returned, whichever return statement was taken.
C8_TerminalRestored ==
    (ctPc = "returned" /\ madeRaw) => (termState = priorState /\ termState = state)

\* ConTerm returned through the pty-request failure, after raw mode was set
C8_Witness ==
    /\ ctPc = "returned"
    /\ madeRaw
    /\ ctExit = "requestPty"
    /\ ctErr # ""
    /\ priorState = "cbreak"

\* C2: once RunCmdWithOutput has returned, the concatenation of the elements
\* it sent on the output stream equals the bytes the command wrote: no byte
\* is lost, whatever the interleaving of writes, exit and drain loop.
C2_NoByteLost ==
    drainPc \in {"done", "closed"} => Concat(outputChan) = written

\* C3: at every moment the elements sent on the output stream, taken in
\* order, spell a prefix of the bytes the command wrote: nothing is reordered
\* or duplicated (and nothing the command did not write is sent).
C3_OrderPreserved ==
    IsPrefix(Concat(outputChan), written)

\* C1: in parallel mode, each host task completes at most one send on
\* finished, and once cmd has left its wait loop (it is closing exitInput or
\* has returned) it has received exactly one signal per host, each host having
\* sent exactly one, whichever hosts' CreateSession failed.
C1_ExactlyNFinished ==
    IsParallel =>
        /\ \A h \in Hosts : finishedSent[h] <= 1
        /\ finishedRecv <= nHosts
        /\ (mainPc \in {"closeExit", "returned"} \/ exitInput = "closed") =>
              /\ finishedRecv = nHosts
              /\ \A h \in Hosts : finishedSent[h] = 1 /\ task[h] = "done"

\* parallel mode, two hosts, one session failed and one succeeded, cmd returned
C1_Witness ==
    /\ IsParallel
    /\ nHosts >= 2
    /\ mainPc = "returned"
    /\ exitInput = "closed"
    /\ \E h \in Hosts : sessOK[h] = "fail"
    /\ \E h \in Hosts : sessOK[h] = "ok"

\* a host whose session was created has run its command to the end, handed
\* every element to its own consumer, closed its stream and sent finished
SiblingComplete(h) ==
    /\ task[h] = "done"
    /\ chClosed[h]
    /\ oRecv[h] = oSent[h]
    /\ finishedSent[h] = 1

\* C9: in parallel mode, however many hosts fail to create a session, cmd
\* eventually returns, and by then every host whose session was created has
\* run its command, handed all of its output to its own consumer, closed its
\* stream and sent finished.
C9_SiblingsUnaffected ==
    IsParallel =>
        <>(/\ mainPc = "returned"
           /\ \A h \in Hosts : sessOK[h] = "ok" => SiblingComplete(h))

\* parallel mode: one host failed, its sibling delivered output, cmd returned
C9_Witness ==
    /\ IsParallel
    /\ mainPc = "returned"
    /\ \E f \in Hosts : sessOK[f] = "fail" /\ oSent[f] = 0
    /\ \E h \in Hosts : sessOK[h] = "ok" /\ oRecv[h] = MaxLines /\ SiblingComplete(h)

\* C10: in sequential mode with several hosts, the task of host h+1 is not
\* started before the stream of host h is closed and its inline consumer has
\* received and rendered everything and returned; so the lines of host h are
\* all rendered before any line of host h+1.
C10_SequentialOrder ==
    (~IsParallel /\ nHosts > 1) =>
        /\ \A h \in Hosts :
              (h + 1 \in Hosts /\ task[h + 1] # "idle") =>
                  /\ chClosed[h]
                  /\ consumer[h] = "done"
                  /\ oRecv[h] = oSent[h]
                  /\ oPrinted[h] = oSent[h]
        /\ \A h \in Hosts :
              (h + 1 \in Hosts /\ oPrinted[h + 1] > 0) =>
                  /\ task[h] \in {"finish", "done"}
                  /\ oPrinted[h] = oSent[h]

\* sequential mode: both hosts produced output and the second one was started
C10_Witness ==
    /\ ~IsParallel
    /\ nHosts > 1
    /\ oPrinted[1] = MaxLines
    /\ oPrinted[2] >= 1

\* the sink exists and the copy task has been started only without piped
\* input and in parallel mode or with one host; with piped input no host
\* publishes a handle, the collector receives none, and nothing is built
InputBroadcastGuarded ==
    /\ collector = "built" => (~hasStdin /\ Concurrent /\ writers = Hosts)
    /\ pushInput # "none" => (~hasStdin /\ Concurrent /\ collector = "built")
    /\ writers # {} => (~hasStdin /\ Concurrent)
    /\ hasStdin =>
          /\ \A h \in Hosts : task[h] # "publish"
          /\ writers = {}
          /\ collector # "built"
          /\ pushInput = "none"

\* the sink is built by one step only, and the copy task is started by one
\* step only: once built or started, it is never built or started again
InputBroadcastOnce ==
    /\ (collector' = "built" /\ collector # "built") =>
          (collector = "collect" /\ pushInput = "none" /\ pushInput' = "running")
    /\ collector = "built" => collector' = "built"
    /\ (pushInput' = "running" /\ pushInput # "running") =>
          (pushInput = "none" /\ collector # "built")
    /\ pushInput # "none" => pushInput' # "none"

\* C11: the input-broadcast sink and the input-copy task are created at most
\* once per cmd call, and only when there is no piped input and parallel mode
\* is on or there is one host; with piped input no host publishes an input
\* handle and neither sink nor copy task is ever started.
C11_InputBroadcastOnlyWhenActive ==
    []InputBroadcastGuarded /\ [][InputBroadcastOnce]_vars

\* two hosts, no piped input: the sink was built over both handles, the copy
\* task ran and was stopped after cmd returned
C11_Witness ==
    /\ nHosts = 2
    /\ ~hasStdin
    /\ writers = Hosts
    /\ collector = "built"
    /\ pushInput = "stopped"
    /\ mainPc = "returned"

\* the kinds of the hops of the returned list, in list order
HopKinds == [i \in 1..Len(proxyList) |-> proxyType[proxyList[i]]]

\* the target's proxy reference is the plain server a, whose own proxy
\* reference b is listed under the proxy configuration with kind socks5
ServerThenSocks5(a, b) ==
    /\ a # b
    /\ server \in DOMAIN config.Server
    /\ config.Server[server].Proxy = a
    /\ config.Server[server].ProxyType = ""
    /\ a \in DOMAIN config.Server
    /\ config.Server[a].Proxy = b
    /\ config.Server[a].ProxyType = "socks5"
    /\ b \in config.Proxy

\* C12 as stated: for a target whose proxy reference is a plain server A whose
\* own proxy reference B is a socks5 proxy entry, GetProxyList returns the
\* hop list [A, B] with kinds [ssh, socks5].
C12_ListAB ==
    \A a, b \in Names :
        (gpPc = "done" /\ ServerThenSocks5(a, b)) =>
            /\ proxyList = <<a, b>>
            /\ HopKinds = <<"ssh", "socks5">>

\* C12 amended: in that configuration GetProxyList returns, without error,
\* the hop list in dial order, [B, A], with kinds [socks5, ssh].
C12_ListBA ==
    \A a, b \in Names :
        (gpPc = "done" /\ ServerThenSocks5(a, b)) =>
            /\ gpErr = ""
            /\ proxyList = <<b, a>>
            /\ HopKinds = <<"socks5", "ssh">>

\* GetProxyList has returned for target 1, plain server 2, socks5 proxy 3
C12_Witness ==
    /\ gpPc = "done"
    /\ server = 1
    /\ ServerThenSocks5(2, 3)
    /\ collected = <<2, 3>>

\* e is one complete line: it ends with the terminator and holds no other
IsCompleteLine(e) ==
    /\ Len(e) >= 1
    /\ e[Len(e)] = "\n"
    /\ \A i \in 1..(Len(e) - 1) : e[i] # "\n"

\* C13: every element RunCmdWithOutput sends on the output stream is exactly
\* one complete line ending with its terminator, however the command's output
\* reaches the buffer in chunks; a command that prints one terminated line
\* yields exactly that one element, after which the stream is closed.
C13_WholeLines ==
    /\ \A i \in 1..Len(outputChan) : IsCompleteLine(outputChan[i])
    /\ (drainPc = "closed" /\ written = <<"a", "\n">>) =>
          outputChan = << <<"a", "\n">> >>

\* C14: in createClientOverProxy, once establishing a hop has failed the
\* function has returned that error: nothing is attempted after a failed
\* attempt (no later hop, no target dial) and c.Client is what it was.
C14_FailFast ==
    /\ \A i \in 1..(Len(cpAttempts) - 1) : cpAttempts[i].ok
    /\ (\E i \in 1..Len(cpAttempts) : ~cpAttempts[i].ok) =>
          /\ cpPc = "done"
          /\ cpRet \notin {"none", ""}
          /\ cpClient = cpClient0

\* C15: whenever input broadcasting is active (no piped input, and parallel
\* mode or one host), the collector eventually has one input handle of every
\* host, has built the sink over them and has started the input-copy task,
\* whichever hosts fail to create their session: it does not wait forever.
C15_CollectorCompletes ==
    (~hasStdin /\ Concurrent) =>
        <>(/\ writers = Hosts
           /\ collector = "built"
           /\ pushInput # "none")

\* C16: across the CreateSession calls on one Connect, at most one transport
\* client is open at any time, and an open client is the one c.Client
\* refers to: a stale client is closed before its replacement is stored.
C16_AtMostOneOpenClient ==
    /\ Cardinality(clientOpen) <= 1
    /\ \A c \in clientOpen : c = Client

\* C17: in every hop list GetProxyList returns, a hop of kind http, https or
\* socks5 occurs only at the first position, so at most once, and every
\* other hop has kind ssh.
C17_TunnelOnlyFirst ==
    gpPc = "done" =>
        \A i \in 2..Len(proxyList) : HopKinds[i] = "ssh"

\* the proxy reference of name n in the server table (NoName: none)
RefOf(n) ==
    IF n \in DOMAIN config.Server THEN config.Server[n].Proxy ELSE NoName

\* the proxy reference of n if it is a reference to an SSH server
SshRefOf(n) ==
    IF n \in DOMAIN config.Server /\ config.Server[n].ProxyType \notin TunnelTypes
    THEN config.Server[n].Proxy
    ELSE NoName

\* the name reached from n after k references (NoName once the chain ended)
RECURSIVE RefIter(_, _)
RefIter(n, k) == IF k = 0 \/ n = NoName THEN n ELSE RefIter(RefOf(n), k - 1)

RECURSIVE SshRefIter(_, _)
SshRefIter(n, k) == IF k = 0 \/ n = NoName THEN n ELSE SshRefIter(SshRefOf(n), k - 1)

\* the references reachable from the target are acyclic: with MaxNames names,
\* a chain that does not repeat a name ends within MaxNames references
AcyclicFromTarget == RefIter(server, MaxNames) = NoName

\* SSH servers reference each other cyclically: the target's chain of SSH
\* references never ends
SshCycleFromTarget == SshRefIter(server, MaxNames) # NoName

NoRepeats(l) == \A i, j \in 1..Len(l) : l[i] = l[j] => i = j

\* acyclic: the list never repeats a name and no error is returned; cyclic:
\* GetProxyList never leaves its loop
WalkShape ==
    /\ AcyclicFromTarget => (NoRepeats(proxyList) /\ gpErr = "")
    /\ SshCycleFromTarget => gpPc = "loop"

\* cyclic: every iteration appends one more hop and stays in the loop
WalkGrows ==
    (SshCycleFromTarget /\ gpPc = "loop") =>
        (gpPc' = "loop" /\ Len(proxyList') = Len(proxyList) + 1)

\* C18: for a configuration whose proxy references reachable from the target
\* are acyclic, GetProxyList terminates and its hop list repeats no name;
\* there is no cycle guard: when SSH servers reference each other cyclically
\* the walk never returns and every iteration makes the hop list longer.
C18_TerminatesIffAcyclic ==
    /\ []WalkShape
    /\ [][WalkGrows]_vars
    /\ (AcyclicFromTarget => <>(gpPc = "done"))

\* a cycle of two SSH servers: the list has grown past the number of names
C18_Witness ==
    /\ SshCycleFromTarget
    /\ Len(proxyList) > MaxNames
    /\ ~NoRepeats(proxyList)

\* C19: when cmd has returned with the consumers running as goroutines
\* (parallel mode or one host), every element any host sent on its stream has
\* been rendered by that host's consumer and every consumer has seen its
\* stream closed and returned.
C19_ConsumersDoneAtReturn ==
    (mainPc = "returned" /\ Concurrent) =>
        \A h \in Hosts :
            /\ oPrinted[h] = oSent[h]
            /\ consumer[h] = "done"

\* C20: in every mode, every host task that cmd starts eventually ends: its
\* send on finished is received, so no task stays blocked on that send after
\* cmd has returned.
C20_HostTasksTerminate ==
    <>(\A h \in Hosts : task[h] = "done")

=============================================================================
